---- MODULE Spec2Model ----
(***************************************************************************)
(* Model of the micro-float codec (bitstring/mxfp.py, bitstring/fp8.py)    *)
(* and of the literal token decoder (bitstring/bitstore_helpers.py).       *)
(*                                                                         *)
(* A Python float is modelled exactly, as a record                         *)
(*     [k |-> "fin" | "inf" | "nan", s |-> sign bit, m |-> Nat, e |-> Int] *)
(* standing for (-1)^s * m * 2^e, with m odd (or m = 0, e = 0 for a zero). *)
(* Every value the codec touches has at most 13 significant bits, so the   *)
(* double arithmetic of the source (comparisons, f - lower, upper - f) is  *)
(* exact and is modelled by exact arithmetic on these records.             *)
(***************************************************************************)
EXTENDS Integers, Sequences, FiniteSets, TLC

VARIABLES op, fmt, x, code, retCode, retFloat, tok, retBits, objects, zlib_calls

vars == <<op, fmt, x, code, retCode, retFloat, tok, retBits, objects, zlib_calls>>

(***************************************************************************)
(* Bounds of the model.                                                    *)
(***************************************************************************)
\* input doubles have 1 + MantBits significant bits
MantBits == 5
\* input doubles have floor(log2|x|) in -ExpSpan .. ExpSpan
ExpSpan == 26
\* floor(log2|x|) of the additional huge inputs (1e300 is about 2^996)
HugeExp == 996
\* longest token
MaxTokLen == 4

(***************************************************************************)
(* Exact floats.                                                           *)
(***************************************************************************)
Pow2(n) == 2 ^ n

Min2(a, b) == IF a <= b THEN a ELSE b

RECURSIVE BitLen(_)
BitLen(m) == IF m = 0 THEN 0 ELSE 1 + BitLen(m \div 2)

RECURSIVE Strip(_, _)
Strip(m, e) ==
    IF m = 0 THEN <<0, 0>>
    ELSE IF m % 2 = 0 THEN Strip(m \div 2, e + 1)
    ELSE <<m, e>>

Fin(s, m, e) == LET t == Strip(m, e) IN [k |-> "fin", s |-> s, m |-> t[1], e |-> t[2]]
Inf(s) == [k |-> "inf", s |-> s, m |-> 0, e |-> 0]
NaN(s) == [k |-> "nan", s |-> s, m |-> 0, e |-> 0]
Zero == Fin(0, 0, 0)

Neg(v) == [v EXCEPT !.s = 1 - v.s]
IsNaN(v) == v.k = "nan"
IsZero(v) == v.k = "fin" /\ v.m = 0
\* floor(log2|v|) of a finite nonzero v
Top(v) == BitLen(v.m) - 1 + v.e

\* |a| < |b| for finite a, b
MagLess(a, b) ==
    IF b.m = 0 THEN FALSE
    ELSE IF a.m = 0 THEN TRUE
    ELSE IF Top(a) # Top(b) THEN Top(a) < Top(b)
    ELSE LET q == Min2(a.e, b.e)
         IN a.m * Pow2(a.e - q) < b.m * Pow2(b.e - q)

\* Python's a < b on floats
FLess(a, b) ==
    IF a.k = "nan" \/ b.k = "nan" THEN FALSE
    ELSE IF a.k = "inf" THEN a.s = 1 /\ ~(b.k = "inf" /\ b.s = 1)
    ELSE IF b.k = "inf" THEN b.s = 0
    ELSE IF a.m = 0 /\ b.m = 0 THEN FALSE
    ELSE IF a.s = 1 /\ a.m # 0
         THEN IF b.s = 1 /\ b.m # 0 THEN MagLess(b, a) ELSE TRUE
    ELSE IF b.s = 1 \/ b.m = 0 THEN FALSE
    ELSE MagLess(a, b)

\* Python's a == b on floats
FEq(a, b) ==
    IF a.k = "nan" \/ b.k = "nan" THEN FALSE
    ELSE IF a.k = "inf" \/ b.k = "inf" THEN a.k = b.k /\ a.s = b.s
    ELSE (a.m = 0 /\ b.m = 0) \/ (a.s = b.s /\ a.m = b.m /\ a.e = b.e)

FLe(a, b) == FLess(a, b) \/ FEq(a, b)

\* v as a signed multiple of 2^q (v finite, q at most its exponent)
Scaled(v, q) == IF v.m = 0 THEN 0 ELSE (IF v.s = 1 THEN -1 ELSE 1) * v.m * Pow2(v.e - q)

ExpOf(v) == IF v.k = "fin" /\ v.m # 0 THEN v.e ELSE 1000

\* the sign of (f - lower) - (upper - f) as Python computes the two
\* differences, for lower < f < upper: -1, 0 or 1
DistCmp(f, lower, upper) ==
    IF lower.k = "inf" /\ upper.k = "inf" THEN 0
    ELSE IF upper.k = "inf" THEN -1
    ELSE IF lower.k = "inf" THEN 1
    ELSE LET q == Min2(ExpOf(f), Min2(ExpOf(lower), ExpOf(upper)))
             d == 2 * Scaled(f, q) - Scaled(lower, q) - Scaled(upper, q)
         IN IF d < 0 THEN -1 ELSE IF d > 0 THEN 1 ELSE 0

(***************************************************************************)
(* struct.pack('>e', f) and struct.unpack('>e', b): IEEE half precision.   *)
(***************************************************************************)
\* the float a 16 bit pattern stands for
Unpack16(p) ==
    LET s  == p \div 32768
        ex == (p \div 1024) % 32
        fr == p % 1024
    IN IF ex = 31 THEN (IF fr = 0 THEN Inf(s) ELSE NaN(s))
       ELSE IF ex = 0 THEN Fin(s, fr, -24)
       ELSE Fin(s, 1024 + fr, ex - 25)

\* m * 2^e rounded to a multiple of 2^q, to nearest, ties to even, in units of 2^q
RoundHalfEven(m, e, q) ==
    IF e >= q THEN m * Pow2(e - q)
    ELSE IF q - e > BitLen(m) + 1 THEN 0
    ELSE LET d    == Pow2(q - e)
             n    == m \div d
             r    == m % d
         IN IF 2 * r < d THEN n
            ELSE IF 2 * r > d THEN n + 1
            ELSE IF n % 2 = 0 THEN n ELSE n + 1

\* the 16 bit pattern of f, or -1 when struct.pack raises OverflowError
Pack16(f) ==
    IF f.k = "inf" THEN f.s * 32768 + 31744
    ELSE IF f.k = "nan" THEN f.s * 32768 + 32256
    ELSE IF f.m = 0 THEN f.s * 32768
    ELSE IF Top(f) >= 16 THEN -1
    ELSE LET q == IF Top(f) < -14 THEN -24 ELSE Top(f) - 10
             n == RoundHalfEven(f.m, f.e, q)
             \* n = 2048 is a carry into the next binade
             n2 == IF n = 2048 THEN 1024 ELSE n
             q2 == IF n = 2048 THEN q + 1 ELSE q
         IN IF q2 = -24 /\ n2 < 1024 THEN f.s * 32768 + n2
            ELSE IF q2 + 25 >= 31 THEN -1
            ELSE f.s * 32768 + (q2 + 25) * 1024 + (n2 - 1024)

(***************************************************************************)
(* bitarray.util.int2ba / ba2int: big-endian bit sequences.                *)
(***************************************************************************)
int2ba(i, length) == [j \in 1..length |-> (i \div Pow2(length - j)) % 2]

RECURSIVE ba2int(_)
ba2int(b) == IF Len(b) = 0 THEN 0 ELSE 2 * ba2int(SubSeq(b, 1, Len(b) - 1)) + b[Len(b)]

\* array.array('f', values): the table with every entry computed
Array(values) == values @@ <<>>

(***************************************************************************)
(* mxfp.py                                                                 *)
(***************************************************************************)
\* the code points of the 8-bit layouts that are special-cased
e5m2_inf_codes_shifted == {123, 251}
e5m2_inf_codes == {124, 252}
e5m2_nan_codes == {125, 253, 126, 254, 127, 255}
e4m3_nan_codes == {127, 255}

\* the exponent of a code whose exponent field is 0
subnormal_exponent_no_offset(bias) == -bias
subnormal_exponent(bias) == -bias + 1

\* the decode table: code point -> float
createLUT_for_int_to_float(exp_bits, mantissa_bits, bias) ==
    LET length == 1 + exp_bits + mantissa_bits
    IN Array([i \in 0..(Pow2(length) - 1) |->
        LET b        == int2ba(i, length)
            sign     == b[1]
            expfield == ba2int(SubSeq(b, 2, 1 + exp_bits))
            mant     == SubSeq(b, 2 + exp_bits, length)
            significand == IF expfield = 0 THEN <<0>> \o mant ELSE <<1>> \o mant
            exponent == IF expfield = 0 THEN subnormal_exponent(bias) ELSE expfield - bias
            f0 == Fin(0, ba2int(significand), exponent - mantissa_bits)
            f  == IF length = 8 /\ exp_bits = 5 /\ i \in e5m2_nan_codes THEN NaN(0)
                  ELSE IF length = 8 /\ exp_bits = 5 /\ i \in e5m2_inf_codes THEN Inf(0)
                  ELSE IF length = 8 /\ exp_bits = 4 /\ i \in e4m3_nan_codes THEN NaN(0)
                  ELSE f0
        IN IF sign = 0 THEN f ELSE Neg(f)])

\* "for i in range(lo, hi + 1): <body>": the value the first iteration that
\* returns gives, or -1 when no iteration returns.  The iterations are taken
\* in order, by halves, so the nesting stays logarithmic in the range.
RECURSIVE ForRange(_, _, _)
ForRange(Body(_), lo, hi) ==
    IF lo > hi THEN -1
    ELSE IF lo = hi THEN Body(lo)
    ELSE LET mid   == (lo + hi) \div 2
             first == ForRange(Body, lo, mid)
         IN IF first # -1 THEN first ELSE ForRange(Body, mid + 1, hi)

\* slow_pos with a tie always going to the upper code
slow_pos_ties_up(f, lut, i) ==
    LET lower == lut[i]
        upper == lut[i + 1]
    IN IF FEq(f, lower) THEN i
       ELSE IF FEq(f, upper) THEN i + 1
       ELSE IF FLess(lower, f) /\ FLess(f, upper)
            THEN LET c == DistCmp(f, lower, upper)
                 IN IF c < 0 THEN i ELSE i + 1
       ELSE -1

\* one iteration of the scan of the positive half of the table
slow_pos(f, lut, i) ==
    LET lower == lut[i]
        upper == lut[i + 1]
    IN IF FEq(f, lower) THEN i
       ELSE IF FEq(f, upper) THEN i + 1
       ELSE IF FLess(lower, f) /\ FLess(f, upper)
            THEN LET c == DistCmp(f, lower, upper)
                 IN IF c < 0 THEN i
                    ELSE IF c > 0 THEN i + 1
                    ELSE IF i % 2 = 0 THEN i ELSE i + 1
       ELSE -1

\* slow_neg with the two equality tests of the positive half
slow_neg_as_pos(f, lut, i) ==
    LET upper == lut[i]
        lower == lut[i + 1]
    IN IF FEq(f, lower) THEN i
       ELSE IF FEq(f, upper) THEN i + 1
       ELSE IF FLess(lower, f) /\ FLess(f, upper)
            THEN LET c == DistCmp(f, lower, upper)
                 IN IF c < 0 THEN i + 1
                    ELSE IF c > 0 THEN i
                    ELSE IF i % 2 = 0 THEN i ELSE i + 1
       ELSE -1

\* one iteration of the scan of the negative half of the table
slow_neg(f, lut, i) ==
    LET upper == lut[i]
        lower == lut[i + 1]
    IN IF FEq(f, lower) THEN i + 1
       ELSE IF FEq(f, upper) THEN i
       ELSE IF FLess(lower, f) /\ FLess(f, upper)
            THEN LET c == DistCmp(f, lower, upper)
                 IN IF c < 0 THEN i + 1
                    ELSE IF c > 0 THEN i
                    ELSE IF i % 2 = 0 THEN i ELSE i + 1
       ELSE -1

slow_float_to_int(f, lut_int_to_float, exp_bits, mantissa_bits, bias) ==
    LET length == 1 + exp_bits + mantissa_bits
        values == Pow2(length)
        Pos(i) == slow_pos(f, lut_int_to_float, i)
        Ng(i)  == slow_neg(f, lut_int_to_float, i)
    IN IF FLe(Zero, f)
       THEN LET r == ForRange(Pos, 0, values \div 2 - 2)
            IN IF r # -1 THEN r ELSE Pow2(length - 1) - 1
       ELSE IF FLess(f, Zero)
       THEN LET r == ForRange(Ng, values \div 2, values - 2)
            IN IF r # -1 THEN r ELSE Pow2(length) - 1
       ELSE 0

\* the encode table without the conversion of negative zero
createLUT_for_float16_to_mxfp_keeps_negzero(lut_int_to_float, exp_bits, mantissa_bits, bias) ==
    [i \in 0..65535 |->
        slow_float_to_int(Unpack16(i), lut_int_to_float, exp_bits, mantissa_bits, bias)]

\* the encode table: half-precision pattern -> code point
createLUT_for_float16_to_mxfp(lut_int_to_float, exp_bits, mantissa_bits, bias) ==
    [i \in 0..65535 |->
        LET f     == Unpack16(i)
            fp8_i == slow_float_to_int(f, lut_int_to_float, exp_bits, mantissa_bits, bias)
        IN IF fp8_i = Pow2(exp_bits + mantissa_bits) THEN 0 ELSE fp8_i]

\* MXFPFormat.__init__: the tables stored compressed are the ones the two
\* createLUT functions build.  The decode table is a field of the descriptor;
\* the 65536-entry encode table is read through lut_float16_to_mxfp.
MXFPFormat(exp_bits, mantissa_bits, bias) ==
    [cls |-> "MXFPFormat", exp_bits |-> exp_bits, mantissa_bits |-> mantissa_bits,
     bias |-> bias,
     lut_int_to_float |-> createLUT_for_int_to_float(exp_bits, mantissa_bits, bias)]

lut_float16_to_mxfp(self) ==
    createLUT_for_float16_to_mxfp(self.lut_int_to_float, self.exp_bits,
                                  self.mantissa_bits, self.bias)

float_to_int(self, f) ==
    LET f16_int == Pack16(f)
    IN IF f16_int = -1
       THEN IF self.exp_bits = 4 /\ self.mantissa_bits = 3
               THEN (IF FLess(Zero, f) THEN 126 ELSE 254)
            ELSE IF self.exp_bits = 5 /\ self.mantissa_bits = 2
               THEN (IF FLess(Zero, f) THEN 123 ELSE 251)
            ELSE IF FLess(Zero, f) THEN Pow2(self.exp_bits + self.mantissa_bits) - 1
                 ELSE Pow2(1 + self.exp_bits + self.mantissa_bits) - 1
       ELSE lut_float16_to_mxfp(self)[f16_int]

e2m1mxfp_fmt == MXFPFormat(2, 1, 1)
e2m3mxfp_fmt == MXFPFormat(2, 3, 1)
e3m2mxfp_fmt == MXFPFormat(3, 2, 3)
e4m3mxfp_fmt == MXFPFormat(4, 3, 7)
e5m2mxfp_fmt == MXFPFormat(5, 2, 15)

(***************************************************************************)
(* fp8.py                                                                  *)
(***************************************************************************)
\* the decode table of an 8-bit format: int in 0..255 -> float
createLUT_for_int8_to_float(exp_bits, bias) ==
    Array([i \in 0..255 |->
        LET b        == int2ba(i, 8)
            sign     == b[1]
            expfield == ba2int(SubSeq(b, 2, 1 + exp_bits))
            mant     == SubSeq(b, 2 + exp_bits, 8)
            significand == IF expfield = 0 THEN <<0>> \o mant ELSE <<1>> \o mant
            exponent == IF expfield = 0 THEN subnormal_exponent(bias) ELSE expfield - bias
            f == Fin(0, ba2int(significand), exponent - (7 - exp_bits))
        IN \* one special case for minus zero
           IF i = 128 THEN NaN(0)
           ELSE IF sign = 0 THEN f ELSE Neg(f)])

slow_float_to_int8(lut_int8_to_float, f) ==
    LET Pos(i) == IF FLess(f, lut_int8_to_float[i]) THEN i - 1 ELSE -1
        Ng(i)  == IF FLess(lut_int8_to_float[i], f) THEN i - 1 ELSE -1
    IN IF FLe(Zero, f)
       THEN LET r == ForRange(Pos, 1, 127)
            IN IF r # -1 THEN r ELSE 127
       ELSE IF FLess(f, Zero)
       THEN IF FLess(lut_int8_to_float[129], f) THEN 0
            ELSE LET r == ForRange(Ng, 130, 255)
                 IN IF r # -1 THEN r ELSE 255
       ELSE 128

\* the encode table of an 8-bit format: half-precision pattern -> int
createLUT_for_float16_to_float8(lut_int8_to_float) ==
    [i \in 0..65535 |-> slow_float_to_int8(lut_int8_to_float, Unpack16(i))]

\* FP8Format.__init__: the two compressed tables of each format are the
\* ones the reference construction builds
FP8Format(exp_bits, bias) ==
    [cls |-> "FP8Format", exp_bits |-> exp_bits, mantissa_bits |-> 8 - 1 - exp_bits,
     bias |-> bias,
     lut_int8_to_float |-> createLUT_for_int8_to_float(exp_bits, bias)]

lut_float16_to_float8(self) == createLUT_for_float16_to_float8(self.lut_int8_to_float)

float_to_int8(self, f) ==
    LET f16_int == Pack16(f)
    IN IF f16_int = -1
       THEN (IF FLess(Zero, f) THEN 127 ELSE 255)
       ELSE lut_float16_to_float8(self)[f16_int]

fp143_fmt == FP8Format(4, 8)
fp152_fmt == FP8Format(5, 16)

(***************************************************************************)
(* The codec: the named formats, encode and decode.                        *)
(***************************************************************************)
MXFPNames == {"e2m1mxfp_fmt", "e2m3mxfp_fmt", "e3m2mxfp_fmt", "e4m3mxfp_fmt", "e5m2mxfp_fmt"}
FP8Names == {"fp143_fmt", "fp152_fmt"}
FormatNames == MXFPNames \cup FP8Names

Format(name) ==
    CASE name = "e2m1mxfp_fmt" -> e2m1mxfp_fmt
      [] name = "e2m3mxfp_fmt" -> e2m3mxfp_fmt
      [] name = "e3m2mxfp_fmt" -> e3m2mxfp_fmt
      [] name = "e4m3mxfp_fmt" -> e4m3mxfp_fmt
      [] name = "e5m2mxfp_fmt" -> e5m2mxfp_fmt
      [] name = "fp143_fmt" -> fp143_fmt
      [] name = "fp152_fmt" -> fp152_fmt

\* the decode table of a format
DecodeTable(self) ==
    IF self.cls = "FP8Format" THEN self.lut_int8_to_float ELSE self.lut_int_to_float

to_float(self, c) == DecodeTable(self)[c]

to_code(self, f) ==
    IF self.cls = "FP8Format" THEN float_to_int8(self, f) ELSE float_to_int(self, f)

Codes(self) == 0..(Pow2(1 + self.exp_bits + self.mantissa_bits) - 1)

\* the doubles the encoders are called with
Doubles ==
    {Fin(s, Pow2(MantBits) + j, t - MantBits) :
        s \in 0..1, j \in 0..(Pow2(MantBits) - 1), t \in (-ExpSpan)..ExpSpan}
    \cup {Fin(s, 3, HugeExp - 1) : s \in 0..1}
    \cup {Zero, Neg(Zero), Inf(0), Inf(1), NaN(0), NaN(1)}

NoBits == [ok |-> TRUE, bits |-> <<>>]

(***************************************************************************)
(* The descriptor objects.  objects maps the module-level names bound so   *)
(* far to the object __init__ built: the fields exp_bits, mantissa_bits    *)
(* and bias, the decode table, and the encode table on the half-precision  *)
(* patterns of Float16Grid.  zlib_calls counts, per name, the calls of     *)
(* zlib.decompress made for the decode and for the encode payload.         *)
(***************************************************************************)
\* the half-precision patterns at which the stored encode table is kept:
\* every sign and exponent with the fraction field 0 or 1000000000b
Float16Grid == {p \in 0..65535 : p % 512 = 0}

\* the fields __init__ assigns on self
NewMXFPFormat(name) ==
    LET self == Format(name)
    IN Array([f \in DOMAIN self \cup {"lut_float16_to_mxfp"} |->
                IF f = "lut_float16_to_mxfp"
                THEN Array([p \in Float16Grid |-> lut_float16_to_mxfp(self)[p]])
                ELSE self[f]])

NewFP8Format(name) ==
    LET self == Format(name)
    IN Array([f \in DOMAIN self \cup {"lut_float16_to_float8"} |->
                IF f = "lut_float16_to_float8"
                THEN Array([p \in Float16Grid |-> lut_float16_to_float8(self)[p]])
                ELSE self[f]])

\* the seven objects the two modules bind at import
Descriptors ==
    Array([name \in FormatNames |->
             IF name \in MXFPNames THEN NewMXFPFormat(name) ELSE NewFP8Format(name)])

\* the objects of the names in names, and the decompress calls that built them
Bound(names) == Array([name \in names |-> Descriptors[name]])

Decompressed(names) ==
    [name \in FormatNames |->
        IF name \in names THEN [decode |-> 1, encode |-> 1]
        ELSE [decode |-> 0, encode |-> 0]]


\* a call is set up with its arguments: the format and a double (op
\* "arg_float") or a code point (op "arg_code")
InitCodec ==
    /\ fmt \in FormatNames
    /\ \/ op = "arg_float" /\ x \in Doubles /\ code = 0
       \/ op = "arg_code" /\ x = Zero /\ code \in Codes(Format(fmt))
    /\ retCode = 0
    /\ retFloat = Zero
    /\ tok = <<>>
    /\ retBits = NoBits
    \* the descriptor the call is made on has been built
    /\ objects = Bound({fmt})
    /\ zlib_calls = Decompressed({fmt})

\* MXFPFormat.float_to_int(f)
FloatToInt ==
    /\ op = "arg_float"
    /\ fmt \in MXFPNames
    /\ op' = "float_to_int"
    /\ retCode' = float_to_int(Format(fmt), x)
    /\ UNCHANGED <<fmt, x, code, retFloat, tok, retBits, objects, zlib_calls>>

\* FP8Format.float_to_int8(f)
FloatToInt8 ==
    /\ op = "arg_float"
    /\ fmt \in FP8Names
    /\ op' = "float_to_int8"
    /\ retCode' = float_to_int8(Format(fmt), x)
    /\ UNCHANGED <<fmt, x, code, retFloat, tok, retBits, objects, zlib_calls>>

\* a read of the decode table at code point c
IntToFloat ==
    /\ op = "arg_code"
    /\ op' = "int_to_float"
    /\ retFloat' = to_float(Format(fmt), code)
    /\ UNCHANGED <<fmt, x, code, retCode, tok, retBits, objects, zlib_calls>>

\* the decoded value of the last read is encoded again
RoundTrip ==
    /\ op = "int_to_float"
    /\ op' = "round_trip"
    /\ x' = retFloat
    /\ retCode' = to_code(Format(fmt), retFloat)
    /\ UNCHANGED <<fmt, code, retFloat, tok, retBits, objects, zlib_calls>>

CodecNext ==
    \/ FloatToInt
    \/ FloatToInt8
    \/ IntToFloat
    \/ RoundTrip

CodecSpec == InitCodec /\ [][CodecNext]_vars

(***************************************************************************)
(* bitstore_helpers.py: literal tokens.  A string is a sequence of         *)
(* characters; a character is a one-character string, except ArabicThree,  *)
(* which stands for U+0663 ARABIC-INDIC DIGIT THREE.  A BitStore is        *)
(* modelled by its bit sequence; a call returns [ok |-> TRUE, bits |-> b]  *)
(* or raises ValueError, [ok |-> FALSE, bits |-> <<>>].                    *)
(***************************************************************************)
ArabicThree == "U+0663"

Alphabet == {"0", "1", "9", "f", "F", "x", "X", "b", "o", "_", " ", "\t", ArabicThree}

Tokens == UNION {[1..n -> Alphabet] : n \in 0..MaxTokLen}

ValueError == [ok |-> FALSE, bits |-> <<>>]
BitStore(ba) == [ok |-> TRUE, bits |-> ba]

\* str.lower() on one character
lower(c) ==
    CASE c = "A" -> "a" [] c = "B" -> "b" [] c = "C" -> "c" [] c = "D" -> "d"
      [] c = "E" -> "e" [] c = "F" -> "f" [] c = "O" -> "o" [] c = "X" -> "x"
      [] OTHER -> c

tidy_input_string(s) ==
    LET lowered == [i \in 1..Len(s) |-> lower(s[i])]
        Kept(c) == c # "_" /\ c # " "
    IN SelectSeq(lowered, Kept)

startswith(s, prefix) ==
    Len(s) >= Len(prefix) /\ SubSeq(s, 1, Len(prefix)) = prefix

\* the value of a decimal digit character, ASCII or not, or -1
DecimalDigit(c) ==
    CASE c = "0" -> 0 [] c = "1" -> 1 [] c = "2" -> 2 [] c = "3" -> 3 [] c = "4" -> 4
      [] c = "5" -> 5 [] c = "6" -> 6 [] c = "7" -> 7 [] c = "8" -> 8 [] c = "9" -> 9
      [] c = ArabicThree -> 3
      [] OTHER -> -1

\* int(c, base) on one character: its value, or -1 when int raises ValueError.
\* int accepts every Unicode decimal digit, and the ASCII letters.
int(c, base) ==
    LET v == CASE DecimalDigit(c) # -1 -> DecimalDigit(c)
               [] c = "a" -> 10 [] c = "b" -> 11 [] c = "c" -> 12
               [] c = "d" -> 13 [] c = "e" -> 14 [] c = "f" -> 15
               [] OTHER -> -1
    IN IF v # -1 /\ v < base THEN v ELSE -1

\* format(v, '0<width>b')
format_b(v, width) == int2ba(v, width)

RECURSIVE join(_)
join(parts) == IF Len(parts) = 0 THEN <<>> ELSE Head(parts) \o join(Tail(parts))

\* bitarray.bitarray(s) on a string: '0' and '1' are bits, whitespace and
\* underscores are skipped, any other character raises ValueError
bitarray(s) ==
    LET Skipped(c) == c \in {"_", " ", "\t"}
        NotSkipped(c) == ~Skipped(c)
        digits == SelectSeq(s, NotSkipped)
    IN IF \E i \in 1..Len(digits) : digits[i] \notin {"0", "1"} THEN ValueError
       ELSE BitStore([i \in 1..Len(digits) |-> IF digits[i] = "1" THEN 1 ELSE 0])

hex2bitstore(s0) ==
    LET s == tidy_input_string(s0)
    IN IF ~startswith(s, <<"0", "x">>) THEN ValueError
       ELSE LET d == SubSeq(s, 3, Len(s))
            IN IF \E i \in 1..Len(d) : int(d[i], 16) = -1 THEN ValueError
               ELSE BitStore(join([i \in 1..Len(d) |-> format_b(int(d[i], 16), 4)]))

bin2bitstore(s0) ==
    LET s == tidy_input_string(s0)
    IN IF ~startswith(s, <<"0", "b">>) THEN ValueError
       ELSE bitarray(SubSeq(s, 3, Len(s)))

oct2bitstore(s0) ==
    LET s == tidy_input_string(s0)
    IN IF ~startswith(s, <<"0", "o">>) THEN ValueError
       ELSE LET d == SubSeq(s, 3, Len(s))
            IN IF \E i \in 1..Len(d) : int(d[i], 8) = -1 THEN ValueError
               ELSE BitStore(join([i \in 1..Len(d) |-> format_b(int(d[i], 8), 3)]))

\* the dict, in insertion order: prefix, function
literal_bit_funcs ==
    << <<"0x", "hex2bitstore">>, <<"0X", "hex2bitstore">>,
       <<"0b", "bin2bitstore">>, <<"0B", "bin2bitstore">>,
       <<"0o", "oct2bitstore">>, <<"0O", "oct2bitstore">> >>

\* the characters of a two-character prefix, lowered
PrefixChars(prefix) ==
    CASE prefix \in {"0x", "0X"} -> <<"0", "x">>
      [] prefix \in {"0b", "0B"} -> <<"0", "b">>
      [] prefix \in {"0o", "0O"} -> <<"0", "o">>

Call(func, s) ==
    CASE func = "hex2bitstore" -> hex2bitstore(s)
      [] func = "bin2bitstore" -> bin2bitstore(s)
      [] func = "oct2bitstore" -> oct2bitstore(s)

bitstore_from_token(token0) ==
    LET token == tidy_input_string(token0)
        hits  == {i \in 1..Len(literal_bit_funcs) :
                     startswith(token, PrefixChars(literal_bit_funcs[i][1]))}
    IN IF hits = {} THEN ValueError
       ELSE LET first == CHOOSE i \in hits : \A j \in hits : i <= j
            IN Call(literal_bit_funcs[first][2], token)

\* a call is set up with its token (op "arg_token")
InitToken ==
    /\ op = "arg_token"
    /\ tok \in Tokens
    /\ retBits = NoBits
    /\ fmt = "e2m1mxfp_fmt"
    /\ x = Zero
    /\ code = 0
    /\ retCode = 0
    /\ retFloat = Zero
    \* the token functions use no descriptor
    /\ objects = Bound({})
    /\ zlib_calls = Decompressed({})

Hex2Bitstore ==
    /\ op = "arg_token"
    /\ op' = "hex2bitstore"
    /\ retBits' = hex2bitstore(tok)
    /\ UNCHANGED <<fmt, x, code, retCode, retFloat, tok, objects, zlib_calls>>

Bin2Bitstore ==
    /\ op = "arg_token"
    /\ op' = "bin2bitstore"
    /\ retBits' = bin2bitstore(tok)
    /\ UNCHANGED <<fmt, x, code, retCode, retFloat, tok, objects, zlib_calls>>

Oct2Bitstore ==
    /\ op = "arg_token"
    /\ op' = "oct2bitstore"
    /\ retBits' = oct2bitstore(tok)
    /\ UNCHANGED <<fmt, x, code, retCode, retFloat, tok, objects, zlib_calls>>

BitstoreFromToken ==
    /\ op = "arg_token"
    /\ op' = "bitstore_from_token"
    /\ retBits' = bitstore_from_token(tok)
    /\ UNCHANGED <<fmt, x, code, retCode, retFloat, tok, objects, zlib_calls>>

TokenNext ==
    \/ Hex2Bitstore
    \/ Bin2Bitstore
    \/ Oct2Bitstore
    \/ BitstoreFromToken

TokenSpec == InitToken /\ [][TokenNext]_vars

Init == InitCodec \/ InitToken

Next == CodecNext \/ TokenNext

Spec == Init /\ [][Next]_vars

(***************************************************************************)
(* The life of the descriptors in a process: the module-level statements   *)
(* of mxfp.py and fp8.py bind the seven names, each by one call of         *)
(* __init__, and the encoders and the decode tables are then used in any   *)
(* order.  op, fmt, x, code, retCode and retFloat describe the latest call *)
(* only: its name or the exception it raised, its descriptor, its          *)
(* arguments and what it returned.                                         *)
(***************************************************************************)
\* the module-level assignments, in the order of the source
mxfp_module ==
    <<"e2m1mxfp_fmt", "e2m3mxfp_fmt", "e3m2mxfp_fmt", "e4m3mxfp_fmt", "e5m2mxfp_fmt">>
fp8_module == <<"fp143_fmt", "fp152_fmt">>

\* (variant: the statement may run again after the name is bound)
NextStatement_rerun(module, i, objs) ==
    \A j \in 1..(i - 1) : module[j] \in DOMAIN objs

\* the statement binding module[i] is the next one of the module to run
NextStatement(module, i, objs) ==
    /\ \A j \in 1..(i - 1) : module[j] \in DOMAIN objs
    /\ module[i] \notin DOMAIN objs

\* an argument that is not a number
NotAFloat == [k |-> "str", s |-> 0, m |-> 0, e |-> 0]

\* the arguments the encoders are called with
CallArgs ==
    {Zero, Neg(Zero), Fin(0, 1, 0), Fin(1, 3, -1), Fin(0, 1, 9),
     Inf(0), Inf(1), NaN(0),
     Fin(0, 3, HugeExp - 1), Fin(1, 3, HugeExp - 1), NotAFloat}

\* the code points the decode table is read at; the last one is past its end
CallCodes(self) ==
    {0, Pow2(self.exp_bits + self.mantissa_bits),
     Pow2(1 + self.exp_bits + self.mantissa_bits) - 1,
     Pow2(1 + self.exp_bits + self.mantissa_bits)}

InitProcess ==
    /\ op = "start"
    /\ fmt = "e2m1mxfp_fmt"
    /\ x = Zero
    /\ code = 0
    /\ retCode = 0
    /\ retFloat = Zero
    /\ tok = <<>>
    /\ retBits = NoBits
    /\ objects = Bound({})
    /\ zlib_calls = Decompressed({})

\* name = MXFPFormat(exp_bits, mantissa_bits, bias): __init__ decompresses
\* the two payloads and assigns the fields of the new object
BindMXFPFormat ==
    \E i \in DOMAIN mxfp_module :
        LET name == mxfp_module[i]
        IN /\ NextStatement(mxfp_module, i, objects)
           /\ op' = "MXFPFormat"
           /\ fmt' = name
           /\ objects' = [n \in DOMAIN objects \cup {name} |->
                            IF n = name THEN Descriptors[name] ELSE objects[n]]
           /\ zlib_calls' = [zlib_calls EXCEPT ![name] =
                               [decode |-> @.decode + 1, encode |-> @.encode + 1]]
           /\ x' = Zero /\ code' = 0 /\ retCode' = 0 /\ retFloat' = Zero
           /\ UNCHANGED <<tok, retBits>>

\* name = FP8Format(exp_bits, bias)
BindFP8Format ==
    \E i \in DOMAIN fp8_module :
        LET name == fp8_module[i]
        IN /\ NextStatement(fp8_module, i, objects)
           /\ op' = "FP8Format"
           /\ fmt' = name
           /\ objects' = [n \in DOMAIN objects \cup {name} |->
                            IF n = name THEN Descriptors[name] ELSE objects[n]]
           /\ zlib_calls' = [zlib_calls EXCEPT ![name] =
                               [decode |-> @.decode + 1, encode |-> @.encode + 1]]
           /\ x' = Zero /\ code' = 0 /\ retCode' = 0 /\ retFloat' = Zero
           /\ UNCHANGED <<tok, retBits>>

\* name.float_to_int(f) on a bound descriptor.  A str argument makes
\* struct.pack raise struct.error and then f > 0 raise TypeError; an
\* overflowing one takes the fallback; any other reads the stored table.
CallFloatToInt ==
    \E name \in MXFPNames \cap DOMAIN objects, f \in CallArgs :
        LET self == objects[name]
        IN /\ fmt' = name
           /\ x' = f
           /\ IF f = NotAFloat
              THEN op' = "raise TypeError" /\ retCode' = 0
              ELSE /\ op' = "float_to_int"
                   /\ retCode' = IF Pack16(f) = -1 THEN float_to_int(self, f)
                                 ELSE self.lut_float16_to_mxfp[Pack16(f)]
           /\ code' = 0 /\ retFloat' = Zero
           /\ UNCHANGED <<tok, retBits, objects, zlib_calls>>

\* name.float_to_int8(f) on a bound descriptor; the TypeError of f > 0 is
\* turned into a ValueError
CallFloatToInt8 ==
    \E name \in FP8Names \cap DOMAIN objects, f \in CallArgs :
        LET self == objects[name]
        IN /\ fmt' = name
           /\ x' = f
           /\ IF f = NotAFloat
              THEN op' = "raise ValueError" /\ retCode' = 0
              ELSE /\ op' = "float_to_int8"
                   /\ retCode' = IF Pack16(f) = -1 THEN float_to_int8(self, f)
                                 ELSE self.lut_float16_to_float8[Pack16(f)]
           /\ code' = 0 /\ retFloat' = Zero
           /\ UNCHANGED <<tok, retBits, objects, zlib_calls>>

\* a read of the decode table of a bound descriptor at code point c
ReadDecodeTable ==
    \E name \in DOMAIN objects :
        \E c \in CallCodes(objects[name]) :
            LET self == objects[name]
            IN /\ fmt' = name
               /\ code' = c
               /\ IF c \in DOMAIN DecodeTable(self)
                  THEN op' = "int_to_float" /\ retFloat' = DecodeTable(self)[c]
                  ELSE op' = "raise IndexError" /\ retFloat' = Zero
               /\ x' = Zero /\ retCode' = 0
               /\ UNCHANGED <<tok, retBits, objects, zlib_calls>>

ProcessNext ==
    \/ BindMXFPFormat
    \/ BindFP8Format
    \/ CallFloatToInt
    \/ CallFloatToInt8
    \/ ReadDecodeTable

ProcessSpec == InitProcess /\ [][ProcessNext]_vars

(***************************************************************************)
(* Vocabulary of the properties.                                           *)
(***************************************************************************)
Self == Format(fmt)
Encoded == op \in {"float_to_int", "float_to_int8"}

\* the positional fields of a code point: sign(1) | exponent(E) | mantissa(M)
SignBit(self, c) == c \div Pow2(self.exp_bits + self.mantissa_bits)
ExpField(self, c) == (c \div Pow2(self.mantissa_bits)) % Pow2(self.exp_bits)
MantField(self, c) == c % Pow2(self.mantissa_bits)
IsSubnormalCode(self, c) == ExpField(self, c) = 0 /\ MantField(self, c) # 0

\* the clamp codes: literal for the two 8-bit MXFP layouts, whose top codes
\* are reserved, the arithmetic maximum for every other format
PosClamp(self) ==
    IF self.cls = "MXFPFormat" /\ self.exp_bits = 4 /\ self.mantissa_bits = 3 THEN 126
    ELSE IF self.cls = "MXFPFormat" /\ self.exp_bits = 5 /\ self.mantissa_bits = 2 THEN 123
    ELSE Pow2(self.exp_bits + self.mantissa_bits) - 1
NegClamp(self) == Pow2(self.exp_bits + self.mantissa_bits) + PosClamp(self)
ClampOf(self, s) == IF s = 0 THEN PosClamp(self) ELSE NegClamp(self)

\* the reserved inf/NaN-aliasing region: the codes above the clamp code of their sign
Reserved(self, c) == c % Pow2(self.exp_bits + self.mantissa_bits) > PosClamp(self)

Abs(v) == [v EXCEPT !.s = 0]
IsFinite(v) == v.k = "fin"
IsNegZero(v) == IsZero(v) /\ v.s = 1
\* the smallest subnormal magnitude 2^(1-B-M), half of it, the smallest normal 2^(1-B)
MinSub(self) == Fin(0, 1, 1 - self.bias - self.mantissa_bits)
HalfMinSub(self) == Fin(0, 1, 0 - self.bias - self.mantissa_bits)
MinNormal(self) == Fin(0, 1, 1 - self.bias)
\* x fits half precision; Half(x) is then x rounded to half precision
FitsHalf(v) == Pack16(v) # -1
Half(v) == Unpack16(Pack16(v))

(***************************************************************************)
(* C1: round trip.                                                         *)
(***************************************************************************)
\* C1 as stated: encoding the decoded value of a code point c gives back c,
\* except that a code of the reserved inf/NaN-aliasing region gives the
\* clamp code of its sign; negative zero and the codes with exponent
\* field 0 included.
C1_RoundTripAsStated ==
    op = "round_trip" =>
        retCode = IF Reserved(Self, code) THEN ClampOf(Self, SignBit(Self, code))
                  ELSE code

\* C1 amended: encoding the decoded value of a code point c gives back c
\* whenever the decoded value is finite and is not negative zero (the
\* subnormal codes and the clamp codes included); the code of negative zero
\* gives code point 0.
C1_RoundTrip ==
    op = "round_trip" =>
        /\ (IsFinite(retFloat) /\ ~IsNegZero(retFloat)) => retCode = code
        /\ IsNegZero(retFloat) => retCode = 0

\* a subnormal code of a negative value has been decoded and encoded again
C1_Witness ==
    /\ op = "round_trip"
    /\ IsSubnormalCode(Self, code)
    /\ SignBit(Self, code) = 1
    /\ IsFinite(retFloat) /\ ~IsZero(retFloat)
    /\ retCode = code

\* the sign-bit-only code of an MXFP format has been decoded and encoded again
C1_WitnessNegZero ==
    /\ op = "round_trip"
    /\ IsNegZero(retFloat)
    /\ retCode = 0

(***************************************************************************)
(* C2: overflow clamping.                                                  *)
(***************************************************************************)
Overflows(self, v) ==
    IsFinite(v) /\ ~IsZero(v) /\ Top(v) + self.bias >= Pow2(self.exp_bits)

\* C2 as stated: a finite x whose biased exponent floor(log2|x|) + B is at
\* least 2^E encodes to the clamp code of its sign, on the table path and
\* on the fallback path alike.
C2_OverflowClamps ==
    (Encoded /\ Overflows(Self, x)) => retCode = ClampOf(Self, x.s)

(***************************************************************************)
(* C3: flush to zero.                                                      *)
(***************************************************************************)
\* C3 as stated: a nonzero x of magnitude below the smallest normal
\* magnitude encodes to code point 0, and no subnormal code is ever returned.
C3_FlushToZeroAsStated ==
    Encoded =>
        /\ (IsFinite(x) /\ ~IsZero(x) /\ FLess(Abs(x), MinNormal(Self))) => retCode = 0
        /\ ~IsSubnormalCode(Self, retCode)

\* C3 amended: with h the half-precision rounding of x, a nonzero x encodes
\* to code point 0 when |h| is at most half the smallest subnormal magnitude
\* 2^(1-B-M) (MXFP formats, which round to nearest) or below 2^(1-B-M)
\* (binary8 formats, which truncate); when |h| is at least 2^(1-B-M) and
\* below the smallest normal magnitude 2^(1-B), the code returned is nonzero,
\* carries the sign of x, and is a subnormal code or (MXFP, rounding up) the
\* smallest normal code.
C3_FlushToZero ==
    (Encoded /\ IsFinite(x) /\ ~IsZero(x) /\ FitsHalf(x)) =>
        LET h == Abs(Half(x))
        IN /\ (Self.cls = "MXFPFormat" /\ FLe(h, HalfMinSub(Self))) => retCode = 0
           /\ (Self.cls = "FP8Format" /\ FLess(h, MinSub(Self))) => retCode = 0
           /\ (FLe(MinSub(Self), h) /\ FLess(h, MinNormal(Self))) =>
                 /\ retCode # 0
                 /\ SignBit(Self, retCode) = x.s
                 /\ \/ IsSubnormalCode(Self, retCode)
                    \/ /\ Self.cls = "MXFPFormat"
                       /\ ExpField(Self, retCode) = 1 /\ MantField(Self, retCode) = 0

\* a negative x of magnitude exactly half the smallest subnormal has been
\* encoded by an MXFP format, to code point 0
C3_Witness ==
    /\ op = "float_to_int"
    /\ IsFinite(x) /\ x.s = 1
    /\ Abs(x) = HalfMinSub(Self)
    /\ retCode = 0

\* a magnitude below the smallest normal has been encoded as a subnormal code
C3_WitnessSubnormal ==
    /\ Encoded
    /\ IsFinite(x) /\ ~IsZero(x) /\ FLess(Abs(x), MinNormal(Self))
    /\ IsSubnormalCode(Self, retCode)

(***************************************************************************)
(* C4: decode monotonicity.                                                *)
(***************************************************************************)
\* the non-negative code points with a nonzero exponent field
NormalCodes(self) ==
    {c \in Codes(self) : SignBit(self, c) = 0 /\ ExpField(self, c) # 0}

\* C4 as stated: for non-negative code points c1 < c2 with nonzero exponent
\* fields, to_float(c1) <= to_float(c2), the top codes of the 8-bit layouts
\* included.
C4_MonotoneAsStated ==
    (op = "int_to_float" /\ code \in NormalCodes(Self)) =>
        \A c1 \in NormalCodes(Self) :
            c1 < code => FLe(to_float(Self, c1), retFloat)

\* C4 amended: for non-negative code points c1 < c2 with nonzero exponent
\* fields neither of which decodes to NaN, to_float(c1) <= to_float(c2);
\* this includes the e5m2 code 0b01111100, which decodes to +infinity.
C4_Monotone ==
    (op = "int_to_float" /\ code \in NormalCodes(Self) /\ ~IsNaN(retFloat)) =>
        \A c1 \in NormalCodes(Self) :
            (c1 < code /\ ~IsNaN(to_float(Self, c1))) => FLe(to_float(Self, c1), retFloat)

\* the e5m2 code that decodes to +infinity has been read, above the largest
\* finite code
C4_Witness ==
    /\ op = "int_to_float"
    /\ fmt = "e5m2mxfp_fmt"
    /\ code = 124
    /\ retFloat = Inf(0)
    /\ FLess(to_float(Self, 123), retFloat)

(***************************************************************************)
(* C5: literal normalization.                                              *)
(***************************************************************************)
upper(c) ==
    CASE c = "b" -> "B" [] c = "f" -> "F" [] c = "o" -> "O" [] c = "x" -> "X"
      [] OTHER -> c

InsertAt(t, i, c) == SubSeq(t, 1, i) \o <<c>> \o SubSeq(t, i + 1, Len(t))

\* the tokens that differ from t in the case of one letter, or by one
\* inserted whitespace character or underscore
Variants(t) ==
    {InsertAt(t, i, c) : i \in 0..Len(t), c \in {" ", "\t", "_"}}
    \cup {[t EXCEPT ![i] = upper(t[i])] : i \in 1..Len(t)}
    \cup {[t EXCEPT ![i] = lower(t[i])] : i \in 1..Len(t)}

\* the token as the literal syntax reads it: lowercase, without whitespace
\* and underscores
Normalized(t) ==
    LET lowered == [i \in 1..Len(t) |-> lower(t[i])]
        Kept(c) == c \notin {"_", " ", "\t"}
    IN SelectSeq(lowered, Kept)

BitChars(bits) == [i \in 1..Len(bits) |-> IF bits[i] = 1 THEN "1" ELSE "0"]

\* the bits per digit of a well-formed token
DigitWidth(t) ==
    LET n == Normalized(t)
    IN IF startswith(n, <<"0", "x">>) THEN 4
       ELSE IF startswith(n, <<"0", "o">>) THEN 3 ELSE 1

\* C5 as stated: bitstore_from_token gives the same bit sequence for two
\* tokens that differ only in letter case, in inserted whitespace characters
\* or in inserted underscores; a hex token and the binary token of the same
\* bits give equal bit sequences; a hex digit gives 4 bits, an octal digit 3,
\* a binary digit 1.
C5_LiteralNormalization ==
    op = "bitstore_from_token" =>
        /\ \A t2 \in Variants(tok) : bitstore_from_token(t2) = retBits
        /\ retBits.ok =>
              /\ bitstore_from_token(<<"0", "b">> \o BitChars(retBits.bits)) = retBits
              /\ Len(retBits.bits) = DigitWidth(tok) * (Len(Normalized(tok)) - 2)

(***************************************************************************)
(* C9: malformed tokens.                                                   *)
(***************************************************************************)
HexDigits == {"0", "1", "2", "3", "4", "5", "6", "7", "8", "9",
              "a", "b", "c", "d", "e", "f"}
OctDigits == {"0", "1", "2", "3", "4", "5", "6", "7"}
BinDigits == {"0", "1"}

\* the normalized token n lacks the prefix, or has a digit not of the radix
BadFor(n, prefix, digits) ==
    \/ ~startswith(n, prefix)
    \/ \E i \in 3..Len(n) : n[i] \notin digits

Malformed(func, t) ==
    LET n == Normalized(t)
        hex == BadFor(n, <<"0", "x">>, HexDigits)
        bin == BadFor(n, <<"0", "b">>, BinDigits)
        oct == BadFor(n, <<"0", "o">>, OctDigits)
    IN CASE func = "hex2bitstore" -> hex
         [] func = "bin2bitstore" -> bin
         [] func = "oct2bitstore" -> oct
         [] func = "bitstore_from_token" -> hex /\ bin /\ oct

TokenOps == {"hex2bitstore", "bin2bitstore", "oct2bitstore", "bitstore_from_token"}

\* C9 as stated: bitstore_from_token, hex2bitstore, bin2bitstore and
\* oct2bitstore raise ValueError, and return no bit sequence, whenever the
\* normalized token lacks the prefix or contains a digit invalid for the radix.
C9_MalformedRejected ==
    (op \in TokenOps /\ Malformed(op, tok)) => retBits = ValueError

(***************************************************************************)
(* C6: the decode table and the closed form.                               *)
(***************************************************************************)
\* sign * (1 + mantissa/2^M) * 2^(exponent - B)
NormalValue(self, c) ==
    Fin(SignBit(self, c), Pow2(self.mantissa_bits) + MantField(self, c),
        ExpField(self, c) - self.bias - self.mantissa_bits)

\* sign * (mantissa/2^M) * 2^(1 - B)
SubnormalValue(self, c) ==
    Fin(SignBit(self, c), MantField(self, c), 1 - self.bias - self.mantissa_bits)

\* C6 as stated: DecodeTable[c] is sign * (1 + mantissa/2^M) * 2^(exponent-B)
\* when the exponent field is nonzero and signed zero when it is 0, for
\* every code point, none special-cased.
C6_ClosedFormAsStated ==
    op = "int_to_float" =>
        retFloat = IF ExpField(Self, code) # 0 THEN NormalValue(Self, code)
                   ELSE Fin(SignBit(Self, code), 0, 0)

\* the code points the tables special-case, and their values
SpecialInf(self, c) ==
    self.cls = "MXFPFormat" /\ self.exp_bits = 5 /\ self.mantissa_bits = 2
    /\ c \in {124, 252}
SpecialNaN(self, c) ==
    \/ self.cls = "MXFPFormat" /\ self.exp_bits = 5 /\ self.mantissa_bits = 2
       /\ c \in {125, 126, 127, 253, 254, 255}
    \/ self.cls = "MXFPFormat" /\ self.exp_bits = 4 /\ self.mantissa_bits = 3
       /\ c \in {127, 255}
    \/ self.cls = "FP8Format" /\ c = 128

\* C6 amended: DecodeTable[c] is sign * (1 + mantissa/2^M) * 2^(exponent-B)
\* when the exponent field is nonzero and the subnormal value
\* sign * (mantissa/2^M) * 2^(1-B) when it is 0 (signed zero for mantissa 0
\* only), except at the special-cased code points: the MXFP e5m2 codes
\* 0b?1111100 are infinities of their sign and 0b?1111101..0b?1111111 are
\* NaN, the MXFP e4m3 codes 0b?1111111 are NaN, and the binary8 code
\* 0b10000000 is NaN.
C6_ClosedForm ==
    op = "int_to_float" =>
        IF SpecialNaN(Self, code) THEN IsNaN(retFloat)
        ELSE IF SpecialInf(Self, code) THEN retFloat = Inf(SignBit(Self, code))
        ELSE IF ExpField(Self, code) # 0 THEN retFloat = NormalValue(Self, code)
        ELSE retFloat = SubnormalValue(Self, code)

\* a subnormal code has been read, and its value is not zero
C6_Witness ==
    /\ op = "int_to_float"
    /\ IsSubnormalCode(Self, code)
    /\ IsFinite(retFloat) /\ ~IsZero(retFloat)

(***************************************************************************)
(* C7, C8: NaN and the infinities.                                         *)
(***************************************************************************)
\* C7 as stated: NaN encodes to the code whose sign bit is 1 and whose
\* exponent and mantissa fields are zero, 1 << (E+M), in every format.
C7_NaNCode ==
    (Encoded /\ IsNaN(x)) => retCode = Pow2(Self.exp_bits + Self.mantissa_bits)

\* a finite value too large for half precision, of sign s
Huge(s) == Fin(s, 3, HugeExp - 1)

\* C8 as stated: +infinity encodes to the positive clamp code and -infinity
\* to the negative clamp code, the codes a finite value too large for half
\* precision encodes to.
C8_InfinityClamps ==
    (Encoded /\ x.k = "inf") =>
        /\ retCode = ClampOf(Self, x.s)
        /\ retCode = to_code(Self, Huge(x.s))

(***************************************************************************)
(* C10: rounding of the encoder.                                           *)
(***************************************************************************)
InRange(self, v) ==
    /\ IsFinite(v) /\ ~IsZero(v)
    /\ Top(v) + self.bias >= 0
    /\ Top(v) + self.bias < Pow2(self.exp_bits)

\* floor((|v| / 2^floor(log2|v|) - 1) * 2^M)
TruncatedMantissa(self, v) ==
    LET lead == Pow2(BitLen(v.m) - 1)
    IN ((v.m - lead) * Pow2(self.mantissa_bits)) \div lead

\* C10 as stated: a finite nonzero x that neither overflows nor underflows
\* encodes to sign (x<0), exponent field floor(log2|x|)+B and mantissa
\* floor((|x|/2^floor(log2|x|) - 1) * 2^M), so the magnitude decoded from
\* the result never exceeds |x|.
C10_TruncatesAsStated ==
    (Encoded /\ InRange(Self, x)) =>
        /\ retCode = x.s * Pow2(Self.exp_bits + Self.mantissa_bits)
                     + (Top(x) + Self.bias) * Pow2(Self.mantissa_bits)
                     + TruncatedMantissa(Self, x)
        /\ FLe(Abs(to_float(Self, retCode)), Abs(x))

\* the largest finite magnitude of a format
MaxFinite(self) == to_float(self, PosClamp(self))

\* code r is the code of sign s nearest to magnitude hm, ties to the even code
NearestCode(self, r, s, hm) ==
    LET k == r % Pow2(self.exp_bits + self.mantissa_bits)
        v == Abs(to_float(self, r))
    IN /\ SignBit(self, r) = s
       /\ k <= PosClamp(self)
       /\ IF v = hm THEN TRUE
          ELSE IF FLess(v, hm)
          THEN /\ k < PosClamp(self)
               /\ FLess(hm, Abs(to_float(self, r + 1)))
               /\ LET d == DistCmp(hm, v, Abs(to_float(self, r + 1)))
                  IN d < 0 \/ (d = 0 /\ r % 2 = 0)
          ELSE /\ k > 0
               /\ FLess(Abs(to_float(self, r - 1)), hm)
               /\ LET d == DistCmp(hm, Abs(to_float(self, r - 1)), v)
                  IN d > 0 \/ (d = 0 /\ r % 2 = 0)

\* code r is the code of sign s of the largest magnitude not above hm
TruncatedCode(self, r, s, hm) ==
    LET k == r % Pow2(self.exp_bits + self.mantissa_bits)
    IN /\ SignBit(self, r) = s
       /\ FLe(Abs(to_float(self, r)), hm)
       /\ k = PosClamp(self) \/ FLess(hm, Abs(to_float(self, r + 1)))

\* C10 amended: with h the half-precision rounding of x, nonzero and of
\* magnitude at most the largest finite magnitude of the format: an MXFP
\* format rounds to nearest, to_code(x) being the code of the sign of x whose
\* magnitude is nearest to |h|, ties going to the even code (and the
\* sign-bit-only code being returned as 0), so a value strictly between two
\* adjacent representable magnitudes can be encoded as the larger one; a
\* binary8 format truncates toward zero, to_code(x) being the code of the
\* sign of x of the largest magnitude not above |h| (0 when |h| is below the
\* smallest subnormal), so the magnitude decoded from it never exceeds |h|.
C10_Rounding ==
    (Encoded /\ IsFinite(x) /\ FitsHalf(x) /\ ~IsZero(Half(x))
        /\ FLe(Abs(Half(x)), MaxFinite(Self))) =>
        LET h  == Half(x)
            hm == Abs(h)
            negzero == Pow2(Self.exp_bits + Self.mantissa_bits)
        IN IF Self.cls = "MXFPFormat"
           THEN NearestCode(Self, IF retCode = 0 /\ h.s = 1 THEN negzero ELSE retCode,
                            h.s, hm)
           ELSE IF FLess(hm, MinSub(Self)) THEN retCode = 0
           ELSE TruncatedCode(Self, retCode, h.s, hm)

\* an MXFP format has encoded a value strictly between two adjacent
\* representable magnitudes as the larger one
C10_Witness ==
    /\ op = "float_to_int"
    /\ InRange(Self, x) /\ x.s = 0
    /\ FLess(x, to_float(Self, retCode))
    /\ retCode > 0 /\ FLess(to_float(Self, retCode - 1), x)

(***************************************************************************)
(* C11: tables are initialized once and then frozen.  For each named       *)
(* descriptor the decode payload and the encode payload are decompressed   *)
(* exactly once in the process (never for a name not bound yet, once each  *)
(* for a bound one), and from then on every step, whatever the call, its   *)
(* arguments and its outcome (NaN, infinities, overflowing values, calls   *)
(* that raise), leaves the descriptor bound, leaves its tables and its     *)
(* exp_bits, mantissa_bits and bias as they are, and decompresses nothing. *)
(***************************************************************************)
MaterializedOnce ==
    \A name \in FormatNames :
        /\ name \in DOMAIN objects =>
              zlib_calls[name] = [decode |-> 1, encode |-> 1]
        /\ name \notin DOMAIN objects =>
              zlib_calls[name] = [decode |-> 0, encode |-> 0]

Frozen ==
    \A name \in DOMAIN objects :
        /\ name \in DOMAIN objects'
        /\ objects'[name] = objects[name]
        /\ zlib_calls'[name] = zlib_calls[name]

C11_TablesFrozen == [](MaterializedOnce) /\ [][Frozen]_vars

\* all seven descriptors are bound and a call that raises has just acted on
\* one of them
C11_Witness ==
    /\ DOMAIN objects = FormatNames
    /\ op \in {"raise TypeError", "raise ValueError", "raise IndexError"}
    /\ zlib_calls[fmt] = [decode |-> 1, encode |-> 1]

====
